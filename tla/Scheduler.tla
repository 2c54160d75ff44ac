------------------------------ MODULE Scheduler -------------------------------
(***************************************************************************)
(* The v1 scheduler (vllm/v1/core/sched/scheduler.py), its asynchronous    *)
(* variant (async_scheduler.py) and the EngineCore loop that drives it     *)
(* (vllm/v1/engine/core.py: step and step_with_batch_queue), on top of the *)
(* KV-cache manager.                                                       *)
(*                                                                         *)
(* The engine core is one thread.  Its methods loop over requests; each    *)
(* loop iteration is an action and the variable phase says which loop is   *)
(* running, so that nothing interleaves with a method, while every call    *)
(* into the KV-cache manager is a step of its own.  Requests arrive, are   *)
(* aborted and caches are reset only where the engine looks at its input   *)
(* queues: between two steps, and for aborts also just before the output   *)
(* of a batch is processed.                                                *)
(*                                                                         *)
(* Left out: speculative decoding, encoder inputs, LoRA, KV connectors,    *)
(* structured output and streaming sessions, none of which this deployment *)
(* turns on; with them the queue skipped_waiting, which stays empty.       *)
(***************************************************************************)
EXTENDS KVCacheManager

CONSTANTS
    NumPromptTokens,        \* request -> prompt length
    MaxTokens,              \* request -> sampling_params.max_tokens
    Priority,               \* request -> priority, smaller is more urgent
    Policy,                 \* "FCFS" or "PRIORITY"
    MaxNumScheduledTokens,  \* token budget of a step
    MaxNumRunningReqs,      \* max_num_seqs
    LongPrefillThreshold,   \* long_prefill_token_threshold, 0 when off
    EnableChunkedPrefill,
    AsyncScheduling,        \* AsyncScheduler rather than Scheduler
    BatchQueueSize,         \* max_concurrent_batches
    Abortable,              \* requests a client may abort
    ResetModes,             \* values of reset_running_requests in use
    PauseStates             \* pause states in use besides UNPAUSED

ASSUME SchedulerAssumption ==
    /\ NumPromptTokens \in [Requests -> 1 .. MaxModelLen - 1]
    /\ MaxTokens \in [Requests -> Nat \ {0}]
    /\ Priority \in [Requests -> Int]
    /\ Policy \in {"FCFS", "PRIORITY"}
    /\ MaxNumScheduledTokens \in Nat \ {0}
    /\ MaxNumRunningReqs \in Nat \ {0}
    /\ LongPrefillThreshold \in Nat
    /\ EnableChunkedPrefill \in BOOLEAN
    /\ ~EnableChunkedPrefill => MaxNumScheduledTokens >= MaxModelLen
    /\ AsyncScheduling \in BOOLEAN
    /\ BatchQueueSize \in Nat \ {0}
    /\ Abortable \subseteq Requests
    /\ ResetModes \subseteq BOOLEAN
    /\ PauseStates \subseteq {"PAUSED_NEW", "PAUSED_ALL"}

VARIABLES
    status,                 \* request -> RequestStatus, "NONE" before it arrives
    arrival_time,           \* request -> place in the order of arrival
    num_tokens,             \* request -> prompt and output tokens known
    num_computed_tokens,
    num_output_placeholders,
    discard_latest_async_tokens,
    waiting,                \* RequestQueue
    running,                \* list of running requests
    finished_req_ids,       \* finished since the last schedule()
    pause_state,
    phase,                  \* the method, or loop of a method, in progress
    local,                  \* local variables of schedule()
    batch_queue,            \* scheduled batches, oldest first
    outputs,                \* entries of the batch whose output is processed
    written                 \* history: <<slot, kv>>, the KV that slots hold

requestVars == <<status, arrival_time, num_tokens, num_computed_tokens,
                 num_output_placeholders, discard_latest_async_tokens>>
queueVars == <<waiting, running, finished_req_ids, pause_state>>
engineVars == <<phase, local, batch_queue, outputs>>
vars == <<kvVars, requestVars, queueVars, engineVars, written>>

NoRequest == "none"

IdleLocal == [req_index |-> 1, token_budget |-> 0, num_scheduled_tokens |-> <<>>,
              preempted |-> FALSE, request |-> NoRequest, num_new_tokens |-> 0]

Init ==
    /\ KVInit
    /\ status = [r \in Requests |-> "NONE"]
    /\ arrival_time = [r \in Requests |-> 0]
    /\ num_tokens = NumPromptTokens
    /\ num_computed_tokens = [r \in Requests |-> 0]
    /\ num_output_placeholders = [r \in Requests |-> 0]
    /\ discard_latest_async_tokens = [r \in Requests |-> FALSE]
    /\ waiting = <<>> /\ running = <<>>
    /\ finished_req_ids = {}
    /\ pause_state = "UNPAUSED"
    /\ phase = "idle"
    /\ local = IdleLocal
    /\ batch_queue = <<>>
    /\ outputs = <<>>
    /\ written = {}
-------------------------------------------------------------------------------
(* Queues *)

Unfinished(r) == status[r] \in {"WAITING", "RUNNING", "PREEMPTED"}

\* Request.__lt__: r is served before s.
Before(r, s) ==
    \/ Priority[r] < Priority[s]
    \/ Priority[r] = Priority[s] /\ arrival_time[r] < arrival_time[s]

\* RequestQueue.peek_request: the first request, or the most urgent one.
Peek ==
    IF Policy = "FCFS"
    THEN waiting[1]
    ELSE CHOOSE r \in Range(waiting) : \A s \in Range(waiting) \ {r} : Before(r, s)

Without(queue, S) == Keep(queue, Requests \ S)

\* Scheduler.get_num_unfinished_requests
NumUnfinishedRequests ==
    CASE pause_state = "PAUSED_ALL" -> 0
      [] pause_state = "PAUSED_NEW" -> Len(running)
      [] OTHER -> Len(waiting) + Len(running)

\* Scheduler.has_requests
HasRequests == NumUnfinishedRequests > 0 \/ finished_req_ids # {}

\* Scheduler.add_request
AddRequest(r) ==
    /\ phase = "idle"
    /\ status[r] = "NONE"
    /\ status' = [status EXCEPT ![r] = "WAITING"]
    /\ arrival_time' = [arrival_time EXCEPT
                          ![r] = Cardinality({s \in Requests : status[s] # "NONE"}) + 1]
    /\ waiting' = Append(waiting, r)
    /\ UNCHANGED <<kvVars, num_tokens, num_computed_tokens, num_output_placeholders,
                   discard_latest_async_tokens, running, finished_req_ids, pause_state,
                   engineVars, written>>
-------------------------------------------------------------------------------
(* schedule() *)

\* The start of schedule(), called by step() or step_with_batch_queue().
StartSchedule ==
    /\ phase = "idle"
    /\ HasRequests
    /\ Len(batch_queue) < BatchQueueSize
    /\ phase' = "running"
    /\ local' = [IdleLocal EXCEPT
                   !.token_budget = IF pause_state = "PAUSED_ALL" THEN 0
                                    ELSE MaxNumScheduledTokens]
    /\ UNCHANGED <<kvVars, requestVars, queueVars, batch_queue, outputs, written>>

\* long_prefill_token_threshold
Capped(n) ==
    IF 0 < LongPrefillThreshold /\ LongPrefillThreshold < n THEN LongPrefillThreshold ELSE n

\* Variant: the token budget is not applied.
NumNewTokensOverBudget(r) ==
    Smaller(Capped(num_tokens[r] + num_output_placeholders[r] - num_computed_tokens[r]),
            MaxModelLen - 1 - num_computed_tokens[r])

\* How many tokens of a running request to schedule.
NumNewTokens(r) ==
    Smaller(Smaller(Capped(num_tokens[r] + num_output_placeholders[r]
                             - num_computed_tokens[r]),
                    local.token_budget),
            MaxModelLen - 1 - num_computed_tokens[r])

\* Variant: the last token in flight is not anticipated.
ReachesMaxTokensNever(r) == FALSE

\* The batch in flight is already known to produce the request's last token.
ReachesMaxTokens(r) ==
    /\ num_output_placeholders[r] > 0
    /\ num_computed_tokens[r] + 2 - num_output_placeholders[r]
         >= NumPromptTokens[r] + MaxTokens[r]

RunningLoopEnds == local.req_index > Len(running) \/ local.token_budget = 0

\* One iteration of the RUNNING loop, up to allocate_slots.
ConsiderRunning ==
    /\ phase = "running"
    /\ ~RunningLoopEnds
    /\ LET r == running[local.req_index]
       IN  IF ReachesMaxTokens(r) \/ NumNewTokens(r) = 0
           THEN /\ local' = [local EXCEPT !.req_index = @ + 1]
                /\ UNCHANGED phase
           ELSE /\ local' = [local EXCEPT !.request = r, !.num_new_tokens = NumNewTokens(r)]
                /\ phase' = "allocate"
    /\ UNCHANGED <<kvVars, requestVars, queueVars, batch_queue, outputs, written>>

\* The slots whose KV is lost because their blocks are given to request r.
Retained(r, hits) ==
    LET fresh == Range(req_to_blocks'[r]) \ (Range(req_to_blocks[r]) \cup Range(hits))
    IN  {w \in written : w[1][1] \notin fresh}

\* allocate_slots found the blocks: the request is scheduled.
ScheduleRunning ==
    /\ phase = "allocate"
    /\ LET r == local.request
           n == local.num_new_tokens
       IN  /\ AllocateSlots(r, num_computed_tokens[r], num_tokens[r], <<>>, n)
           /\ written' = Retained(r, <<>>)
           /\ local' = [local EXCEPT
                          !.num_scheduled_tokens = Append(@, [req |-> r, n |-> n]),
                          !.token_budget = @ - n,
                          !.req_index = @ + 1,
                          !.request = NoRequest, !.num_new_tokens = 0]
    /\ phase' = "running"
    /\ UNCHANGED <<requestVars, queueVars, batch_queue, outputs>>

\* Variant: the preempted request goes to the back of the waiting queue.
PreemptToBack(r) ==
    /\ Free(r)
    /\ status' = [status EXCEPT ![r] = "PREEMPTED"]
    /\ num_computed_tokens' = [num_computed_tokens EXCEPT ![r] = 0]
    /\ waiting' = Append(waiting, r)

\* Scheduler._preempt_request for a request that was taken out of running.
PreemptRequest(r) ==
    /\ Free(r)
    /\ status' = [status EXCEPT ![r] = "PREEMPTED"]
    /\ num_computed_tokens' = [num_computed_tokens EXCEPT ![r] = 0]
    /\ waiting' = <<r>> \o waiting

\* The request to preempt: the last one, or the least urgent one.
Victim ==
    IF Policy = "FCFS"
    THEN running[Len(running)]
    ELSE CHOOSE r \in Range(running) : \A s \in Range(running) \ {r} : Before(s, r)

\* Variant: the victim's tokens are not given back.
LocalsKeepBudget(victim) ==
    LET entries == {e \in Range(local.num_scheduled_tokens) : e.req = victim}
    IN  IF Policy = "FCFS" \/ entries = {}
        THEN local
        ELSE [local EXCEPT
                !.num_scheduled_tokens = Keep(@, Range(@) \ entries),
                !.req_index = @ - 1]

\* The locals of schedule() once the victim's tokens of this step, if it had
\* any, are given back to the budget.
LocalsWithout(victim) ==
    LET entries == {e \in Range(local.num_scheduled_tokens) : e.req = victim}
    IN  IF Policy = "FCFS" \/ entries = {}
        THEN local
        ELSE [local EXCEPT
                !.num_scheduled_tokens = Keep(@, Range(@) \ entries),
                !.token_budget = @ + (CHOOSE e \in entries : TRUE).n,
                !.req_index = @ - 1]

\* allocate_slots found too few blocks: preempt a request and try again, or
\* give up when there was no other request to preempt.
PreemptForBlocks ==
    /\ phase = "allocate"
    /\ ~CanAllocate(local.request, num_computed_tokens[local.request], <<>>,
                    local.num_new_tokens)
    /\ PreemptRequest(Victim)
    /\ running' = Without(running, {Victim})
    /\ IF Victim = local.request
       THEN /\ phase' = "output"
            /\ local' = [LocalsWithout(Victim) EXCEPT
                           !.preempted = TRUE, !.request = NoRequest, !.num_new_tokens = 0]
       ELSE /\ UNCHANGED phase
            /\ local' = [LocalsWithout(Victim) EXCEPT !.preempted = TRUE]
    /\ UNCHANGED <<arrival_time, num_tokens, num_output_placeholders,
                   discard_latest_async_tokens, finished_req_ids, pause_state,
                   batch_queue, outputs, written>>

\* From the RUNNING loop to the WAITING loop, unless something was preempted.
LeaveRunningLoop ==
    /\ phase = "running"
    /\ RunningLoopEnds
    /\ phase' = IF ~local.preempted /\ pause_state = "UNPAUSED" THEN "waiting" ELSE "output"
    /\ UNCHANGED <<kvVars, requestVars, queueVars, local, batch_queue, outputs, written>>

WaitingLoopEnds ==
    \/ waiting = <<>>
    \/ local.token_budget = 0
    \/ Len(running) = MaxNumRunningReqs

\* Variant: the hits are not subtracted.
NumUncachedIgnoresHits(r, hits) == Capped(num_tokens[r])

\* How many tokens of a waiting request are left after its prefix-cache hits.
NumUncached(r, hits) == Capped(num_tokens[r] - Len(hits) * BlockSize)

\* Variant: no chunked prefill whatever the configuration says.
WaitingIsBlockedByBudget(hits) ==
    LET n == NumUncached(Peek, hits)
    IN  \/ n > local.token_budget
        \/ ~CanAllocate(Peek, 0, hits, n)

\* The first waiting request, with these hits, cannot be scheduled.
WaitingIsBlocked(hits) ==
    LET n == NumUncached(Peek, hits)
    IN  \/ ~EnableChunkedPrefill /\ n > local.token_budget
        \/ ~CanAllocate(Peek, 0, hits, Smaller(n, local.token_budget))

LeaveWaitingLoop ==
    /\ phase = "waiting"
    /\ \/ WaitingLoopEnds
       \/ /\ ~WaitingLoopEnds
          /\ \E hits \in ComputedBlocks(Peek, num_tokens[Peek]) : WaitingIsBlocked(hits)
    /\ phase' = "output"
    /\ UNCHANGED <<kvVars, requestVars, queueVars, local, batch_queue, outputs, written>>

\* One iteration of the WAITING loop.
ScheduleWaiting ==
    /\ phase = "waiting"
    /\ ~WaitingLoopEnds
    /\ LET r == Peek
       IN  \E hits \in ComputedBlocks(r, num_tokens[r]) :
             LET n == Smaller(NumUncached(r, hits), local.token_budget)
             IN  /\ ~WaitingIsBlocked(hits)
                 /\ AllocateSlots(r, 0, num_tokens[r], hits, n)
                 /\ written' = Retained(r, hits)
                 /\ waiting' = Without(waiting, {r})
                 /\ running' = Append(running, r)
                 /\ status' = [status EXCEPT ![r] = "RUNNING"]
                 /\ num_computed_tokens' =
                      [num_computed_tokens EXCEPT ![r] = Len(hits) * BlockSize]
                 /\ local' = [local EXCEPT
                                !.num_scheduled_tokens = Append(@, [req |-> r, n |-> n]),
                                !.token_budget = @ - n]
    /\ UNCHANGED <<arrival_time, num_tokens, num_output_placeholders,
                   discard_latest_async_tokens, finished_req_ids, pause_state,
                   phase, batch_queue, outputs>>

\* Variant: a chunk that ends inside the prompt samples a token too.
EntryAlwaysSamples(e) ==
    LET upto == num_computed_tokens[e.req] + e.n
    IN  [req |-> e.req, from |-> num_computed_tokens[e.req], upto |-> upto,
         samples |-> TRUE]

\* A scheduled request in a batch: it computes tokens from+1 .. upto and then
\* samples the next one, unless upto is inside its prompt (is_prefill_chunk;
\* the model runner then returns no token for it).
Entry(e) ==
    LET upto == num_computed_tokens[e.req] + e.n
    IN  [req |-> e.req, from |-> num_computed_tokens[e.req], upto |-> upto,
         samples |-> upto >= num_tokens[e.req] + num_output_placeholders[e.req]]

\* The slot of the p-th token of request r, counting from 0, and the KV that
\* belongs there: requests whose texts agree up to the end of p's block have
\* the same.
SlotOf(r, p) == <<req_to_blocks[r][(p \div BlockSize) + 1], p % BlockSize>>
KVOf(r, p) ==
    LET i == (p \div BlockSize) + 1
        agrees(s) == /\ i \in DOMAIN BlockHashes[r] /\ i \in DOMAIN BlockHashes[s]
                     /\ BlockHashes[s][i] = BlockHashes[r][i]
    IN  [position |-> p, text |-> {s \in Requests : s = r \/ agrees(s)}]

\* What the batch writes for an entry.
SlotsWritten(e) ==
    {<<SlotOf(e.req, p), KVOf(e.req, p)>> : p \in e.from .. e.upto - 1}

\* The end of schedule(): _update_after_schedule, then execute_model.  The
\* engine waits for the oldest batch when the queue is full or nothing was
\* scheduled, and also when that batch happens to be done already.
FinishSchedule ==
    /\ phase = "output"
    /\ LET scheduled == local.num_scheduled_tokens
           batch == [k \in DOMAIN scheduled |-> Entry(scheduled[k])]
           of(r) == {e \in Range(batch) : e.req = r}
           new == UNION {SlotsWritten(e) : e \in Range(batch)}
       IN  /\ num_computed_tokens' =
                [r \in Requests |-> IF of(r) = {} THEN num_computed_tokens[r]
                                    ELSE (CHOOSE e \in of(r) : TRUE).upto]
           /\ num_output_placeholders' =
                [r \in Requests |->
                   num_output_placeholders[r] +
                     IF AsyncScheduling /\ \E e \in of(r) : e.samples THEN 1 ELSE 0]
           /\ written' = {w \in written : \A v \in new : v[1] # w[1]} \cup new
           /\ batch_queue' = Append(batch_queue, batch)
           /\ phase' \in IF batch # <<>> /\ Len(batch_queue) + 1 < BatchQueueSize
                         THEN {"idle", "collect"} ELSE {"collect"}
    /\ local' = IdleLocal
    /\ finished_req_ids' = {}
    /\ UNCHANGED <<kvVars, status, arrival_time, num_tokens, discard_latest_async_tokens,
                   waiting, running, pause_state, outputs>>
-------------------------------------------------------------------------------
(* update_from_output() *)

\* The engine has nothing to schedule but batches in flight.
AwaitBatch ==
    /\ phase = "idle"
    /\ ~HasRequests
    /\ batch_queue # <<>>
    /\ phase' = "collect"
    /\ UNCHANGED <<kvVars, requestVars, queueVars, local, batch_queue, outputs, written>>

\* The oldest batch is done; update_from_output starts.
CollectBatch ==
    /\ phase = "collect"
    /\ outputs' = batch_queue[1]
    /\ batch_queue' = Tail(batch_queue)
    /\ phase' = "update"
    /\ UNCHANGED <<kvVars, requestVars, queueVars, local, written>>

\* No token for this entry: its request has finished meanwhile, or the entry
\* was a part of its prompt.
SkipOutput ==
    /\ phase = "update" /\ outputs # <<>>
    /\ ~Unfinished(outputs[1].req) \/ ~outputs[1].samples
    /\ outputs' = Tail(outputs)
    /\ UNCHANGED <<kvVars, requestVars, queueVars, phase, local, batch_queue, written>>

\* AsyncScheduler._update_request_with_output for a request that was preempted
\* by reset_prefix_cache: the token is thrown away.
DiscardOutput ==
    /\ phase = "update" /\ outputs # <<>>
    /\ LET r == outputs[1].req
       IN  /\ Unfinished(r) /\ outputs[1].samples
           /\ AsyncScheduling /\ discard_latest_async_tokens[r]
           /\ discard_latest_async_tokens' =
                [discard_latest_async_tokens EXCEPT ![r] = FALSE]
    /\ outputs' = Tail(outputs)
    /\ UNCHANGED <<kvVars, status, arrival_time, num_tokens, num_computed_tokens,
                   num_output_placeholders, queueVars, phase, local, batch_queue, written>>

\* check_stop: the token ends the request, eos or not.
Stops(r, eos) ==
    eos \/ num_tokens[r] + 1 >= Smaller(MaxModelLen, NumPromptTokens[r] + MaxTokens[r])

\* _update_request_with_output appends the sampled token.
AppendOutput ==
    /\ phase = "update" /\ outputs # <<>>
    /\ LET r == outputs[1].req
       IN  /\ Unfinished(r) /\ outputs[1].samples
           /\ ~(AsyncScheduling /\ discard_latest_async_tokens[r])
           /\ num_tokens' = [num_tokens EXCEPT ![r] = @ + 1]
           /\ num_output_placeholders' =
                [num_output_placeholders EXCEPT ![r] = @ - IF AsyncScheduling THEN 1 ELSE 0]
           /\ \E eos \in BOOLEAN :
                /\ status' = IF Stops(r, eos) THEN [status EXCEPT ![r] = "FINISHED"] ELSE status
                /\ phase' = IF AsyncScheduling /\ status[r] = "RUNNING" THEN "cache"
                            ELSE IF Stops(r, eos) THEN "stop" ELSE "update"
           /\ outputs' = IF phase' = "update" THEN Tail(outputs) ELSE outputs
    /\ UNCHANGED <<kvVars, arrival_time, num_computed_tokens, discard_latest_async_tokens,
                   queueVars, local, batch_queue, written>>

\* AsyncScheduler._update_request_with_output then caches the new token.
CacheOutput ==
    /\ phase = "cache"
    /\ LET r == outputs[1].req
       IN  /\ CacheBlocks(r, num_computed_tokens[r] - num_output_placeholders[r])
           /\ phase' = IF Unfinished(r) THEN "update" ELSE "stop"
           /\ outputs' = IF Unfinished(r) THEN Tail(outputs) ELSE outputs
    /\ UNCHANGED <<requestVars, queueVars, local, batch_queue, written>>

\* _free_request for a request that has stopped.
FreeStopped ==
    /\ phase = "stop"
    /\ Free(outputs[1].req)
    /\ finished_req_ids' = finished_req_ids \cup {outputs[1].req}
    /\ outputs' = Tail(outputs)
    /\ phase' = "update"
    /\ UNCHANGED <<requestVars, waiting, running, pause_state, local, batch_queue, written>>

\* The end of update_from_output: stopped requests leave their queues.
FinishUpdate ==
    /\ phase = "update" /\ outputs = <<>>
    /\ LET stopped == {r \in Requests : status[r] = "FINISHED"}
       IN  /\ running' = Without(running, stopped)
           /\ waiting' = Without(waiting, stopped)
    /\ phase' = "idle"
    /\ UNCHANGED <<kvVars, requestVars, finished_req_ids, pause_state, local, batch_queue,
                   outputs, written>>
-------------------------------------------------------------------------------
(* Requests from outside *)

\* Variants: a waiting request stays queued; the blocks are not freed.
AbortRunningOnly(r) ==
    /\ phase \in {"idle", "collect"}
    /\ Unfinished(r)
    /\ running' = Without(running, {r})
    /\ status' = [status EXCEPT ![r] = "FINISHED"]
    /\ Free(r)
    /\ finished_req_ids' = finished_req_ids \cup {r}
    /\ UNCHANGED <<arrival_time, num_tokens, num_computed_tokens, num_output_placeholders,
                   discard_latest_async_tokens, waiting, pause_state, engineVars, written>>
AbortLeaksBlocks(r) ==
    /\ phase \in {"idle", "collect"}
    /\ Unfinished(r)
    /\ running' = Without(running, {r})
    /\ waiting' = Without(waiting, {r})
    /\ status' = [status EXCEPT ![r] = "FINISHED"]
    /\ finished_req_ids' = finished_req_ids \cup {r}
    /\ UNCHANGED <<kvVars, arrival_time, num_tokens, num_computed_tokens,
                   num_output_placeholders, discard_latest_async_tokens, pause_state,
                   engineVars, written>>

\* Scheduler.finish_requests for an abort, from the input queue between two
\* steps or from the aborts queue before update_from_output.
Abort(r) ==
    /\ phase \in {"idle", "collect"}
    /\ Unfinished(r)
    /\ running' = Without(running, {r})
    /\ waiting' = Without(waiting, {r})
    /\ status' = [status EXCEPT ![r] = "FINISHED"]
    /\ Free(r)
    /\ finished_req_ids' = finished_req_ids \cup {r}
    /\ UNCHANGED <<arrival_time, num_tokens, num_computed_tokens, num_output_placeholders,
                   discard_latest_async_tokens, pause_state, engineVars, written>>

\* Scheduler.reset_prefix_cache(reset_running_requests = False): nothing
\* happens unless no request holds a block.
ResetIdleCache ==
    /\ phase = "idle" /\ FALSE \in ResetModes
    /\ ResetPrefixCache
    /\ UNCHANGED <<requestVars, queueVars, engineVars, written>>

\* Scheduler.reset_prefix_cache(reset_running_requests = True): preempt the
\* running requests one by one, then reset.
StartReset ==
    /\ phase = "idle" /\ TRUE \in ResetModes
    /\ phase' = "reset"
    /\ UNCHANGED <<kvVars, requestVars, queueVars, local, batch_queue, outputs, written>>

PreemptForReset ==
    /\ phase = "reset" /\ running # <<>>
    /\ LET r == running[Len(running)]
       IN  /\ PreemptRequest(r)
           /\ running' = Without(running, {r})
           /\ num_output_placeholders' = [num_output_placeholders EXCEPT ![r] = 0]
           /\ discard_latest_async_tokens' =
                [discard_latest_async_tokens EXCEPT ![r] = TRUE]
    /\ UNCHANGED <<arrival_time, num_tokens, finished_req_ids, pause_state, engineVars,
                   written>>

FinishReset ==
    /\ phase = "reset" /\ running = <<>>
    /\ ResetPrefixCache
    /\ phase' = "idle"
    /\ UNCHANGED <<requestVars, queueVars, local, batch_queue, outputs, written>>

\* Scheduler.set_pause_state
SetPauseState(s) ==
    /\ phase = "idle"
    /\ pause_state # s
    /\ pause_state' = s
    /\ UNCHANGED <<kvVars, requestVars, waiting, running, finished_req_ids, engineVars,
                   written>>

\* run_busy_loop blocks on the input queue, and no request is left to arrive.
Quiescent ==
    /\ phase = "idle" /\ ~HasRequests /\ batch_queue = <<>>
    /\ \A r \in Requests : status[r] = "FINISHED"
    /\ UNCHANGED vars

EngineStep ==
    \/ StartSchedule \/ ConsiderRunning \/ ScheduleRunning \/ PreemptForBlocks
    \/ LeaveRunningLoop \/ ScheduleWaiting \/ LeaveWaitingLoop \/ FinishSchedule
    \/ AwaitBatch \/ CollectBatch \/ SkipOutput \/ DiscardOutput \/ AppendOutput
    \/ CacheOutput \/ FreeStopped \/ FinishUpdate \/ PreemptForReset \/ FinishReset

Next ==
    \/ EngineStep
    \/ \E r \in Requests : AddRequest(r)
    \/ \E r \in Abortable : Abort(r)
    \/ ResetIdleCache
    \/ StartReset
    \/ \E s \in PauseStates \cup {"UNPAUSED"} : SetPauseState(s)
    \/ Quiescent

\* The engine core's loop never stops while it has work.
Spec == Init /\ [][Next]_vars /\ WF_vars(EngineStep)
-------------------------------------------------------------------------------
(* Properties *)

InSchedule == phase \in {"running", "allocate", "waiting", "output"}
InUpdate == phase \in {"update", "cache", "stop"}

\* Types of the scheduler's state.
TypeOK ==
    /\ status \in [Requests -> {"NONE", "WAITING", "RUNNING", "PREEMPTED", "FINISHED"}]
    /\ arrival_time \in [Requests -> 0 .. Cardinality(Requests)]
    /\ num_tokens \in [Requests -> 1 .. MaxModelLen]
    /\ num_computed_tokens \in [Requests -> 0 .. MaxModelLen - 1]
    /\ num_output_placeholders \in [Requests -> 0 .. BatchQueueSize + 1]
    /\ discard_latest_async_tokens \in [Requests -> BOOLEAN]
    /\ waiting \in Seq(Requests) /\ running \in Seq(Requests)
    /\ finished_req_ids \subseteq Requests
    /\ pause_state \in PauseStates \cup {"UNPAUSED"}
    /\ phase \in {"idle", "running", "allocate", "waiting", "output", "collect",
                  "update", "cache", "stop", "reset"}
    /\ local.req_index \in 1 .. Cardinality(Requests) + 1
    /\ local.token_budget \in 0 .. MaxNumScheduledTokens
    /\ local.num_new_tokens \in 0 .. MaxNumScheduledTokens
    /\ Len(batch_queue) <= BatchQueueSize
    /\ \A w \in written : w[1] \in UsableBlocks \X (0 .. BlockSize - 1)

\* A request is in one queue, once, and the queue agrees with its status, after
\* any mix of preemption, resumption, stop, abort and reset; only while
\* update_from_output runs are stopped requests still queued.
QueuesMatchStatus ==
    /\ IsInjective(running \o waiting)
    /\ ~InUpdate =>
          /\ Range(running) = {r \in Requests : status[r] = "RUNNING"}
          /\ Range(waiting) = {r \in Requests : status[r] \in {"WAITING", "PREEMPTED"}}

\* Only requests in running hold blocks: a preempted, finished or aborted one
\* keeps none, and reset_prefix_cache cannot fail ("Failed to reset KV cache
\* even when all the running requests are preempted") once running is empty.
OnlyRunningHoldBlocks ==
    /\ \A r \in Requests : req_to_blocks[r] # <<>> => r \in Range(running)
    /\ running = <<>> => NumFreeBlocks = NumGpuBlocks - 1

\* The slot holds this KV and no other.
Holds(slot, kv) == {w \in written : w[1] = slot} = {<<slot, kv>>}

\* Between two calls of schedule(), the KV of every token that a running
\* request counts as computed has been, or is being, written to the slot its
\* block table gives for it, and is still there: the slot was not given away
\* or overwritten since.  A request that starts from prefix-cache hits relies
\* on it for tokens that another request computed.
ComputedTokensWritten ==
    ~InSchedule => \A r \in Range(running) : req_to_blocks[r] # <<>> =>
        \A p \in 0 .. num_computed_tokens[r] - 1 : Holds(SlotOf(r, p), KVOf(r, p))

\* Between two calls of schedule(), every block that the prefix cache can hand
\* out holds the KV its hash stands for, computed or being computed by some
\* batch: get_computed_blocks returns "blocks that are computed".
\* allocate_slots hashes blocks before the batch that fills them exists.
HashedBlocksComputed ==
    ~InSchedule => \A b \in UsableBlocks, r \in Requests : \A i \in DOMAIN BlockHashes[r] :
        block_hash[b] = BlockHashes[r][i] =>
            \A k \in 0 .. BlockSize - 1 : Holds(<<b, k>>, KVOf(r, (i - 1) * BlockSize + k))

\* The entries in flight, by batch: 0 is the batch whose output is processed.
InFlight(q) ==
    IF q > 0 THEN batch_queue[q] ELSE IF phase \in {"cache", "stop"} THEN Tail(outputs) ELSE outputs
SamplesInFlight(r) ==
    UNION {{[batch |-> q, at |-> e.upto] : e \in {f \in Range(InFlight(q)) : f.req = r /\ f.samples}}
             : q \in 0 .. Len(batch_queue)}

\* The tokens in flight for a request are the next ones of its output, in
\* order and without gaps or repeats, whether it keeps running or is preempted
\* while they are in flight; with asynchronous scheduling
\* num_output_placeholders counts them.  The token that a forced
\* reset_prefix_cache has marked to be discarded, the first to come, is not one
\* of them; without one nobody resumes while one of two batches is in flight.
OutputsInOrder ==
    \A r \in Requests : Unfinished(r) =>
        LET samples == SamplesInFlight(r)
            late == IF AsyncScheduling /\ discard_latest_async_tokens[r] THEN 1 ELSE 0
        IN  /\ AsyncScheduling /\ late = 0 => Cardinality(samples) = num_output_placeholders[r]
            /\ \A s \in samples :
                  LET k == Cardinality({t \in samples : t.batch < s.batch})
                  IN  k >= late => s.at = num_tokens[r] + k - late

\* No batch samples a token past max_tokens or max_model_len, although
\* asynchronous scheduling schedules a step before it has seen the tokens of
\* the step before ("Avoid scheduling an extra step when we are sure that the
\* previous step has reached request.max_tokens").
NoExtraStep ==
    \A q \in DOMAIN batch_queue : \A e \in Range(batch_queue[q]) :
        e.upto < Smaller(MaxModelLen, NumPromptTokens[e.req] + MaxTokens[e.req])

\* The assertions at the end of schedule(), and what they are for: the budget
\* and the scheduled tokens add up whatever was preempted on the way, every
\* scheduled request is still running, once, and not too many run.
ScheduleAddsUp ==
    phase = "output" =>
        LET scheduled == local.num_scheduled_tokens
            total == FoldFunction(LAMBDA e, sum : e.n + sum, 0, scheduled)
        IN  /\ pause_state # "PAUSED_ALL" => total + local.token_budget = MaxNumScheduledTokens
            /\ pause_state = "PAUSED_ALL" => scheduled = <<>>
            /\ \A k \in DOMAIN scheduled :
                  /\ scheduled[k].n > 0
                  /\ scheduled[k].req \in Range(running)
                  /\ \A j \in DOMAIN scheduled : scheduled[j].req = scheduled[k].req => j = k
            /\ Len(running) <= MaxNumRunningReqs

\* find_longest_cache_hit stops at the first hash that is not cached because
\* "the following block hashes are not computed yet for sure": the cache is
\* closed under prefixes.  It rests on tables being freed tail first, by
\* preemption, stop and abort alike, and reused blocks being taken from the
\* head of the queue.
CacheClosedUnderPrefix ==
    \A r \in Requests : \A i \in 1 .. Len(BlockHashes[r]) - 1 :
        cached_block_hash_to_block[BlockHashes[r][i + 1]] # {} =>
            cached_block_hash_to_block[BlockHashes[r][i]] # {}

\* With the FCFS policy requests run in the order of arrival, and preempted
\* ones queue up again in that order before the ones that never ran ("Preempt
\* in reverse order so the requests will be added back ... in FIFO order").
FcfsOrder ==
    Policy = "FCFS" =>
        LET queue == running \o waiting
        IN  \A i, j \in DOMAIN queue : i < j => arrival_time[queue[i]] < arrival_time[queue[j]]

\* Every request that arrives is eventually finished: preemption makes room
\* for some request to run to its end, and no batch, token or request is
\* forgotten.
EveryRequestFinishes ==
    \A r \in Requests : status[r] = "WAITING" ~> status[r] = "FINISHED"

\* What the scheduler does to the KV-cache manager is what KVCacheClient
\* allows: every theorem proved about KVCacheClient holds of the scheduler.
SlotsGiven(r) ==
    IF req_to_blocks[r] = <<>> THEN 0
    ELSE LET now == {e \in Range(local.num_scheduled_tokens) : e.req = r}
         IN  num_computed_tokens[r] + IF now = {} THEN 0 ELSE (CHOOSE e \in now : TRUE).n
Client == INSTANCE KVCacheClient WITH
              MaxPlaceholders <- BatchQueueSize,
              InvalidReports <- {},
              slots <- [r \in Requests |-> SlotsGiven(r)]
ImplementsClient == Client!Spec
===============================================================================
